---- MODULE Spec2Model ----
(***************************************************************************)
(* Model of war.c: the territory map, the player roster, the mission       *)
(* catalog, the dice combat of atacar and the round loop of main.          *)
(*                                                                         *)
(* Three specifications share the variables:                               *)
(*   Spec        one game session, from the calloc'd arrays of main to the *)
(*               final report;                                             *)
(*   SpecAtacar  the function atacar applied to one pair of territories,   *)
(*               with its two dice kept visible;                           *)
(*   SpecMissao  the function verificarMissao applied to one mission, one  *)
(*               map and one colour.                                       *)
(* A specification leaves the variables of the others at their idle value. *)
(***************************************************************************)
EXTENDS Integers, Sequences, FiniteSets

\* ------------------------------------------------------------------------
\* Program constants (#define)
\* ------------------------------------------------------------------------
MIN_TERRITORIOS == 5
MAX_TERRITORIOS == 20
MAX_JOGADORES == 6
MIN_JOGADORES == 2
TOTAL_MISSOES == 8
DADO_MIN == 1
DADO_MAX == 6

\* ------------------------------------------------------------------------
\* Bounds of the model
\* ------------------------------------------------------------------------
\* The user is not asked to continue once this turn has been played.
MaxTurno == 2
\* Largest troop count of a territory handed to atacar on its own.
MaxTropas == 6

\* ------------------------------------------------------------------------
\* Sampled inputs
\* ------------------------------------------------------------------------
\* What the user answers to obterNumeroJogadores and obterNumeroTerritorios:
\* <<players, territories>>.
EntradasConfiguracao == {<<2, 5>>, <<3, 5>>, <<2, 6>>}

\* Sampled runs of rand(): <<first, step>> stands for the run whose i-th
\* value (i from 0) is first + step * i.
\* Drawn by distribuirTerritorios: 6 troops everywhere; 2, 3, 4, 5, 6, 2, ...;
\* 6, 2, 3, 4, 5, 6, ...
SorteiosTropas == {<<4, 0>>, <<0, 1>>, <<4, 1>>}
\* Drawn by cadastrarJogadores: IMPERADOR for all; DOMINACAO TOTAL, IMPERADOR,
\* LIBERTADOR; ESTRATEGISTA for all; DOMINACAO TOTAL for all; CONQUISTADOR,
\* EXPANSIONISTA, FORTALEZA.
SorteiosMissao == {<<7, 0>>, <<1, 6>>, <<2, 0>>, <<1, 0>>, <<0, 3>>}
\* Values of rand() drawn by simularDado in a session (faces 1 and 6) and
\* by atacar on its own (every face).
SorteiosDadoSessao == {0, 5}
SorteiosDado == 0..5

\* The i-th value of a sampled run of rand().
sorteado(s, i) == s[1] + s[2] * i

VARIABLES
    numJogadores,     \* main: numJogadores
    numTerritorios,   \* main: numTerritorios
    mapa,             \* main: mapa[0..numTerritorios-1]
    jogadores,        \* main: jogadores[0..numJogadores-1]
    pc,               \* position in main
    turno,            \* main: turno
    vencedor,         \* main: vencedor
    indiceAtacante,   \* executarBatalhaMultiplayer: indiceAtacante (0-based), -1 when not live
    indiceDefensor,   \* executarBatalhaMultiplayer: indiceDefensor (0-based), -1 when not live
    mensagem,         \* what the round printed last: a rejection reason or a battle outcome
    atacante,         \* SpecAtacar: *atacante
    defensor,         \* SpecAtacar: *defensor
    antes,            \* SpecAtacar: the two territories as they were passed to atacar
    dadoAtacante,     \* SpecAtacar: atacar's dadoAtacante, 0 before the roll
    dadoDefensor,     \* SpecAtacar: atacar's dadoDefensor, 0 before the roll
    retorno,          \* SpecAtacar: what atacar did and returned
    missaoAvaliada,   \* SpecMissao: verificarMissao's missao
    corAvaliada,      \* SpecMissao: verificarMissao's corJogador
    cumprida          \* SpecMissao: what verificarMissao returned, -1 before the call

sessao == <<numJogadores, numTerritorios, mapa, jogadores, pc, turno, vencedor,
            indiceAtacante, indiceDefensor, mensagem>>
unidade == <<atacante, defensor, antes, dadoAtacante, dadoDefensor, retorno,
             missaoAvaliada, corAvaliada, cumprida>>
vars == <<numJogadores, numTerritorios, mapa, jogadores, pc, turno, vencedor,
          indiceAtacante, indiceDefensor, mensagem,
          atacante, defensor, antes, dadoAtacante, dadoDefensor, retorno,
          missaoAvaliada, corAvaliada, cumprida>>

\* ------------------------------------------------------------------------
\* Data
\* ------------------------------------------------------------------------
\* cadastrarJogadores: const char* cores[]
cores == <<"Vermelho", "Azul", "Verde", "Amarelo", "Roxo", "Laranja">>

\* Names typed by the user for players and territories.
NomesJogador == <<"Ana", "Bia", "Caio", "Davi", "Eva", "Fabio">>
NomesTerritorio ==
    <<"T1", "T2", "T3", "T4", "T5", "T6", "T7", "T8", "T9", "T10", "T11", "T12">>

\* inicializarMissoes: the upper-case keywords that occur in each description
\* (what strstr can find in it).
missoes ==
    <<"CONQUISTADOR", "DOMINACAO TOTAL", "ESTRATEGISTA", "EXPANSIONISTA",
      "GENERAL SUPREMO", "LIBERTADOR", "FORTALEZA", "IMPERADOR">>

\* calloc'd Territorio and Jogador
TerritorioZerado == [nome |-> "", dono |-> "", cor |-> "", tropas |-> 0]
JogadorZerado ==
    [nome |-> "", cor |-> "", missao |-> "NULL", ativo |-> FALSE,
     territoriosControlados |-> 0]

\* ------------------------------------------------------------------------
\* simularDado, atacar, validarAtaque
\* ------------------------------------------------------------------------
\* simularDado without the + 1: faces 0 to 5.
simularDadoSemMais1(r) == r % 6

\* simularDado: (rand() % 6) + 1, r the value of rand()
simularDado(r) == (r % 6) + 1

\* atacar where a repelled attacker loses as many troops as the dice differ.
atacarPerdeDiferenca(a, d, dadoA, dadoD) ==
    IF a.tropas <= 1
    THEN [atacante |-> a, defensor |-> d, sucesso |-> FALSE,
          resultado |-> "SemTropas", rolou |-> FALSE]
    ELSE IF dadoA > dadoD
    THEN LET metade == a.tropas \div 2
             tropasTranferidas == IF metade = 0 THEN 1 ELSE metade
         IN  [atacante |-> [a EXCEPT !.tropas = a.tropas - tropasTranferidas],
              defensor |-> [d EXCEPT !.cor = a.cor, !.dono = a.dono,
                                     !.tropas = tropasTranferidas],
              sucesso |-> TRUE, resultado |-> "Conquistou", rolou |-> TRUE]
    ELSE IF dadoD > dadoA
    THEN [atacante |-> [a EXCEPT !.tropas = a.tropas - (dadoD - dadoA)],
          defensor |-> d, sucesso |-> FALSE,
          resultado |-> "Repelido", rolou |-> TRUE]
    ELSE [atacante |-> a, defensor |-> d, sucesso |-> FALSE,
          resultado |-> "Empate", rolou |-> TRUE]

\* atacar where the conquered territory receives half of the troops rounded
\* up.
atacarMetadeArredondadaParaCima(a, d, dadoA, dadoD) ==
    IF a.tropas <= 1
    THEN [atacante |-> a, defensor |-> d, sucesso |-> FALSE,
          resultado |-> "SemTropas", rolou |-> FALSE]
    ELSE IF dadoA > dadoD
    THEN LET tropasTranferidas == (a.tropas + 1) \div 2
         IN  [atacante |-> [a EXCEPT !.tropas = a.tropas - tropasTranferidas],
              defensor |-> [d EXCEPT !.cor = a.cor, !.dono = a.dono,
                                     !.tropas = tropasTranferidas],
              sucesso |-> TRUE, resultado |-> "Conquistou", rolou |-> TRUE]
    ELSE IF dadoD > dadoA
    THEN [atacante |-> IF a.tropas > 1 THEN [a EXCEPT !.tropas = a.tropas - 1] ELSE a,
          defensor |-> d, sucesso |-> FALSE,
          resultado |-> "Repelido", rolou |-> TRUE]
    ELSE [atacante |-> a, defensor |-> d, sucesso |-> FALSE,
          resultado |-> "Empate", rolou |-> TRUE]

\* atacar where a repelled attack also costs the defender one troop.
atacarDefensorTambemPerde(a, d, dadoA, dadoD) ==
    IF a.tropas <= 1
    THEN [atacante |-> a, defensor |-> d, sucesso |-> FALSE,
          resultado |-> "SemTropas", rolou |-> FALSE]
    ELSE IF dadoA > dadoD
    THEN LET metade == a.tropas \div 2
             tropasTranferidas == IF metade = 0 THEN 1 ELSE metade
         IN  [atacante |-> [a EXCEPT !.tropas = a.tropas - tropasTranferidas],
              defensor |-> [d EXCEPT !.cor = a.cor, !.dono = a.dono,
                                     !.tropas = tropasTranferidas],
              sucesso |-> TRUE, resultado |-> "Conquistou", rolou |-> TRUE]
    ELSE IF dadoD > dadoA
    THEN [atacante |-> IF a.tropas > 1 THEN [a EXCEPT !.tropas = a.tropas - 1] ELSE a,
          defensor |-> IF d.tropas > 1 THEN [d EXCEPT !.tropas = d.tropas - 1] ELSE d,
          sucesso |-> FALSE,
          resultado |-> "Repelido", rolou |-> TRUE]
    ELSE [atacante |-> a, defensor |-> d, sucesso |-> FALSE,
          resultado |-> "Empate", rolou |-> TRUE]

\* atacar where the troops moved by a conquest are added to those of the
\* defender.
atacarSomaAoDefensor(a, d, dadoA, dadoD) ==
    IF a.tropas <= 1
    THEN [atacante |-> a, defensor |-> d, sucesso |-> FALSE,
          resultado |-> "SemTropas", rolou |-> FALSE]
    ELSE IF dadoA > dadoD
    THEN LET metade == a.tropas \div 2
             tropasTranferidas == IF metade = 0 THEN 1 ELSE metade
         IN  [atacante |-> [a EXCEPT !.tropas = a.tropas - tropasTranferidas],
              defensor |-> [d EXCEPT !.cor = a.cor, !.dono = a.dono,
                                     !.tropas = d.tropas + tropasTranferidas],
              sucesso |-> TRUE, resultado |-> "Conquistou", rolou |-> TRUE]
    ELSE IF dadoD > dadoA
    THEN [atacante |-> IF a.tropas > 1 THEN [a EXCEPT !.tropas = a.tropas - 1] ELSE a,
          defensor |-> d, sucesso |-> FALSE,
          resultado |-> "Repelido", rolou |-> TRUE]
    ELSE [atacante |-> a, defensor |-> d, sucesso |-> FALSE,
          resultado |-> "Empate", rolou |-> TRUE]

\* atacar where a conquest also copies the name of the attacking territory.
atacarCopiaNome(a, d, dadoA, dadoD) ==
    IF a.tropas <= 1
    THEN [atacante |-> a, defensor |-> d, sucesso |-> FALSE,
          resultado |-> "SemTropas", rolou |-> FALSE]
    ELSE IF dadoA > dadoD
    THEN LET metade == a.tropas \div 2
             tropasTranferidas == IF metade = 0 THEN 1 ELSE metade
         IN  [atacante |-> [a EXCEPT !.tropas = a.tropas - tropasTranferidas],
              defensor |-> [d EXCEPT !.nome = a.nome, !.cor = a.cor, !.dono = a.dono,
                                     !.tropas = tropasTranferidas],
              sucesso |-> TRUE, resultado |-> "Conquistou", rolou |-> TRUE]
    ELSE IF dadoD > dadoA
    THEN [atacante |-> IF a.tropas > 1 THEN [a EXCEPT !.tropas = a.tropas - 1] ELSE a,
          defensor |-> d, sucesso |-> FALSE,
          resultado |-> "Repelido", rolou |-> TRUE]
    ELSE [atacante |-> a, defensor |-> d, sucesso |-> FALSE,
          resultado |-> "Empate", rolou |-> TRUE]

\* atacar where a conquest moves every troop of the attacker.
atacarTransfereTudo(a, d, dadoA, dadoD) ==
    IF a.tropas <= 1
    THEN [atacante |-> a, defensor |-> d, sucesso |-> FALSE,
          resultado |-> "SemTropas", rolou |-> FALSE]
    ELSE IF dadoA > dadoD
    THEN LET metade == a.tropas
             tropasTranferidas == IF metade = 0 THEN 1 ELSE metade
         IN  [atacante |-> [a EXCEPT !.tropas = a.tropas - tropasTranferidas],
              defensor |-> [d EXCEPT !.cor = a.cor, !.dono = a.dono,
                                     !.tropas = tropasTranferidas],
              sucesso |-> TRUE, resultado |-> "Conquistou", rolou |-> TRUE]
    ELSE IF dadoD > dadoA
    THEN [atacante |-> IF a.tropas > 1 THEN [a EXCEPT !.tropas = a.tropas - 1] ELSE a,
          defensor |-> d, sucesso |-> FALSE,
          resultado |-> "Repelido", rolou |-> TRUE]
    ELSE [atacante |-> a, defensor |-> d, sucesso |-> FALSE,
          resultado |-> "Empate", rolou |-> TRUE]

\* atacar where a conquest copies the colour but not the owner.
atacarSemDono(a, d, dadoA, dadoD) ==
    IF a.tropas <= 1
    THEN [atacante |-> a, defensor |-> d, sucesso |-> FALSE,
          resultado |-> "SemTropas", rolou |-> FALSE]
    ELSE IF dadoA > dadoD
    THEN LET metade == a.tropas \div 2
             tropasTranferidas == IF metade = 0 THEN 1 ELSE metade
         IN  [atacante |-> [a EXCEPT !.tropas = a.tropas - tropasTranferidas],
              defensor |-> [d EXCEPT !.cor = a.cor,
                                     !.tropas = tropasTranferidas],
              sucesso |-> TRUE, resultado |-> "Conquistou", rolou |-> TRUE]
    ELSE IF dadoD > dadoA
    THEN [atacante |-> IF a.tropas > 1 THEN [a EXCEPT !.tropas = a.tropas - 1] ELSE a,
          defensor |-> d, sucesso |-> FALSE,
          resultado |-> "Repelido", rolou |-> TRUE]
    ELSE [atacante |-> a, defensor |-> d, sucesso |-> FALSE,
          resultado |-> "Empate", rolou |-> TRUE]

\* atacar(atacante, defensor) with the two dice it rolls. The result holds
\* the two territories after the call, the returned bool and the branch.
atacar(a, d, dadoA, dadoD) ==
    IF a.tropas <= 1
    THEN [atacante |-> a, defensor |-> d, sucesso |-> FALSE,
          resultado |-> "SemTropas", rolou |-> FALSE]
    ELSE IF dadoA > dadoD
    THEN LET metade == a.tropas \div 2
             tropasTranferidas == IF metade = 0 THEN 1 ELSE metade
         IN  [atacante |-> [a EXCEPT !.tropas = a.tropas - tropasTranferidas],
              defensor |-> [d EXCEPT !.cor = a.cor, !.dono = a.dono,
                                     !.tropas = tropasTranferidas],
              sucesso |-> TRUE, resultado |-> "Conquistou", rolou |-> TRUE]
    ELSE IF dadoD > dadoA
    THEN [atacante |-> IF a.tropas > 1 THEN [a EXCEPT !.tropas = a.tropas - 1] ELSE a,
          defensor |-> d, sucesso |-> FALSE,
          resultado |-> "Repelido", rolou |-> TRUE]
    ELSE [atacante |-> a, defensor |-> d, sucesso |-> FALSE,
          resultado |-> "Empate", rolou |-> TRUE]

\* validarAtaque without the check of the attacker's troops.
validarAtaqueSemTropas(a, d) ==
    IF a.cor = d.cor THEN "MesmaCor"
    ELSE ""

\* validarAtaque without the check of the colours.
validarAtaqueSemCor(a, d) ==
    IF a.tropas <= 1 THEN "TropasInsuficientes"
    ELSE ""

\* validarAtaque printing the same-colour message for both refusals.
validarAtaqueMesmaMensagem(a, d) ==
    IF a.cor = d.cor THEN "MesmaCor"
    ELSE IF a.tropas <= 1 THEN "MesmaCor"
    ELSE ""

\* validarAtaque: the message it prints, "" when it returns true
validarAtaque(a, d) ==
    IF a.cor = d.cor THEN "MesmaCor"
    ELSE IF a.tropas <= 1 THEN "TropasInsuficientes"
    ELSE ""

\* ------------------------------------------------------------------------
\* verificarMissao
\* ------------------------------------------------------------------------
\* The counting loop of verificarMissao over mapa[i..tamanho-1]: the three
\* counters territoriosControlados, tropasTotais, territoriosComMais5Tropas.
RECURSIVE analisarMapa(_, _, _, _, _)
analisarMapa(m, tamanho, corJogador, i, acc) ==
    IF i >= tamanho THEN acc
    ELSE IF m[i].cor = corJogador
    THEN analisarMapa(m, tamanho, corJogador, i + 1,
            [territoriosControlados |-> acc.territoriosControlados + 1,
             tropasTotais |-> acc.tropasTotais + m[i].tropas,
             territoriosComMais5Tropas |->
                 IF m[i].tropas > 5 THEN acc.territoriosComMais5Tropas + 1
                 ELSE acc.territoriosComMais5Tropas])
    ELSE analisarMapa(m, tamanho, corJogador, i + 1, acc)

\* strstr(missao, chave) != NULL: a description holds exactly one of the
\* upper-case keywords, the one it starts with.
contemChave(missao, chave) == missao = chave

\* verificarMissao with IMPERADOR satisfied by half of the map.
verificarMissaoMetadeBasta(missao, m, tamanho, corJogador) ==
    IF missao = "NULL" \/ tamanho <= 0 THEN FALSE
    ELSE LET c == analisarMapa(m, tamanho, corJogador, 0,
                    [territoriosControlados |-> 0, tropasTotais |-> 0,
                     territoriosComMais5Tropas |-> 0])
         IN  IF contemChave(missao, "CONQUISTADOR") THEN c.territoriosControlados >= 5
             ELSE IF contemChave(missao, "GENERAL SUPREMO") THEN c.tropasTotais > 30
             ELSE IF contemChave(missao, "ESTRATEGISTA") THEN c.territoriosComMais5Tropas >= 3
             ELSE IF contemChave(missao, "IMPERADOR")
                  THEN c.territoriosControlados >= (tamanho \div 2)
             ELSE IF contemChave(missao, "EXPANSIONISTA") THEN c.territoriosControlados >= 4
             ELSE FALSE

\* verificarMissao with GENERAL SUPREMO satisfied by 30 troops.
verificarMissaoTrintaBasta(missao, m, tamanho, corJogador) ==
    IF missao = "NULL" \/ tamanho <= 0 THEN FALSE
    ELSE LET c == analisarMapa(m, tamanho, corJogador, 0,
                    [territoriosControlados |-> 0, tropasTotais |-> 0,
                     territoriosComMais5Tropas |-> 0])
         IN  IF contemChave(missao, "CONQUISTADOR") THEN c.territoriosControlados >= 5
             ELSE IF contemChave(missao, "GENERAL SUPREMO") THEN c.tropasTotais >= 30
             ELSE IF contemChave(missao, "ESTRATEGISTA") THEN c.territoriosComMais5Tropas >= 3
             ELSE IF contemChave(missao, "IMPERADOR")
                  THEN c.territoriosControlados > (tamanho \div 2)
             ELSE IF contemChave(missao, "EXPANSIONISTA") THEN c.territoriosControlados >= 4
             ELSE FALSE

\* verificarMissao with FORTALEZA satisfied by 5 troops or more.
verificarMissaoComFortaleza(missao, m, tamanho, corJogador) ==
    IF missao = "NULL" \/ tamanho <= 0 THEN FALSE
    ELSE LET c == analisarMapa(m, tamanho, corJogador, 0,
                    [territoriosControlados |-> 0, tropasTotais |-> 0,
                     territoriosComMais5Tropas |-> 0])
         IN  IF contemChave(missao, "CONQUISTADOR") THEN c.territoriosControlados >= 5
             ELSE IF contemChave(missao, "GENERAL SUPREMO") THEN c.tropasTotais > 30
             ELSE IF contemChave(missao, "ESTRATEGISTA") THEN c.territoriosComMais5Tropas >= 3
             ELSE IF contemChave(missao, "IMPERADOR")
                  THEN c.territoriosControlados > (tamanho \div 2)
             ELSE IF contemChave(missao, "EXPANSIONISTA") THEN c.territoriosControlados >= 4
             ELSE IF contemChave(missao, "FORTALEZA") THEN c.tropasTotais >= 5
             ELSE FALSE

\* verificarMissao(missao, mapa, tamanho, corJogador) != 0
verificarMissao(missao, m, tamanho, corJogador) ==
    IF missao = "NULL" \/ tamanho <= 0 THEN FALSE
    ELSE LET c == analisarMapa(m, tamanho, corJogador, 0,
                    [territoriosControlados |-> 0, tropasTotais |-> 0,
                     territoriosComMais5Tropas |-> 0])
         IN  IF contemChave(missao, "CONQUISTADOR") THEN c.territoriosControlados >= 5
             ELSE IF contemChave(missao, "GENERAL SUPREMO") THEN c.tropasTotais > 30
             ELSE IF contemChave(missao, "ESTRATEGISTA") THEN c.territoriosComMais5Tropas >= 3
             ELSE IF contemChave(missao, "IMPERADOR")
                  THEN c.territoriosControlados > (tamanho \div 2)
             ELSE IF contemChave(missao, "EXPANSIONISTA") THEN c.territoriosControlados >= 4
             ELSE FALSE

\* ------------------------------------------------------------------------
\* atualizarEstatisticasJogadores, verificarVencedor
\* ------------------------------------------------------------------------
\* The inner loop over j: the first player whose colour is that of the
\* territory, numJ when there is none.
RECURSIVE primeiroDaCor(_, _, _, _)
primeiroDaCor(js, numJ, cor, j) ==
    IF j >= numJ THEN numJ
    ELSE IF js[j].cor = cor THEN j
    ELSE primeiroDaCor(js, numJ, cor, j + 1)

\* The counting loop over the territories i..numT-1.
RECURSIVE contarTerritorios(_, _, _, _, _)
contarTerritorios(js, numJ, m, numT, i) ==
    IF i >= numT THEN js
    ELSE LET j == primeiroDaCor(js, numJ, m[i].cor, 0)
         IN  contarTerritorios(
                 IF j < numJ
                 THEN [js EXCEPT ![j].territoriosControlados = @ + 1]
                 ELSE js,
                 numJ, m, numT, i + 1)

\* The elimination loop without the elimination.
eliminarNinguem(j) == j

\* The elimination loop taking out the players with at most one territory.
eliminarComUmTerritorio(j) ==
    IF j.territoriosControlados <= 1 /\ j.ativo THEN [j EXCEPT !.ativo = FALSE] ELSE j

\* The elimination loop: a player with no territory that is still active
\* becomes inactive.
eliminar(j) ==
    IF j.territoriosControlados = 0 /\ j.ativo THEN [j EXCEPT !.ativo = FALSE] ELSE j

\* atualizarEstatisticasJogadores without the loop that zeroes the counters.
atualizarEstatisticasSemZerar(js, numJ, m, numT) ==
    LET contados == contarTerritorios(js, numJ, m, numT, 0)
    IN  [j \in DOMAIN js |-> eliminar(contados[j])]

\* atualizarEstatisticasJogadores(jogadores, numJogadores, mapa, numTerritorios)
atualizarEstatisticasJogadores(js, numJ, m, numT) ==
    LET zerados == [j \in DOMAIN js |-> [js[j] EXCEPT !.territoriosControlados = 0]]
        contados == contarTerritorios(zerados, numJ, m, numT, 0)
    IN  [j \in DOMAIN js |-> eliminar(contados[j])]

\* verificarVencedor, the loop from player i on
RECURSIVE verificarVencedorDe(_, _, _, _, _)
verificarVencedorDe(js, numJ, m, numT, i) ==
    IF i >= numJ THEN -1
    ELSE IF js[i].ativo /\ js[i].missao # "NULL"
            /\ verificarMissao(js[i].missao, m, numT, js[i].cor)
    THEN i
    ELSE verificarVencedorDe(js, numJ, m, numT, i + 1)

\* verificarVencedor with the loop running from the last player down.
RECURSIVE verificarVencedorDoFim(_, _, _, _, _)
verificarVencedorDoFim(js, numJ, m, numT, i) ==
    IF i < 0 THEN -1
    ELSE IF js[i].ativo /\ js[i].missao # "NULL"
            /\ verificarMissao(js[i].missao, m, numT, js[i].cor)
    THEN i
    ELSE verificarVencedorDoFim(js, numJ, m, numT, i - 1)

verificarVencedorInvertido(js, numJ, m, numT) ==
    verificarVencedorDoFim(js, numJ, m, numT, numJ - 1)

verificarVencedor(js, numJ, m, numT) == verificarVencedorDe(js, numJ, m, numT, 0)

\* ------------------------------------------------------------------------
\* Setup (main, phases 3 to 7)
\* ------------------------------------------------------------------------
Min(a, b) == IF a < b THEN a ELSE b

\* Idle value of the variables of SpecAtacar.
AvaliacaoParada ==
    /\ missaoAvaliada = "NULL"
    /\ corAvaliada = ""
    /\ cumprida = -1

UnidadeParada ==
    /\ AvaliacaoParada
    /\ atacante = TerritorioZerado
    /\ defensor = TerritorioZerado
    /\ antes = <<TerritorioZerado, TerritorioZerado>>
    /\ dadoAtacante = 0
    /\ dadoDefensor = 0
    /\ retorno = [sucesso |-> FALSE, resultado |-> "", rolou |-> FALSE]

\* main up to the two successful allocations: the numbers the user chose
\* (obterNumeroJogadores, obterNumeroTerritorios), the adjustment of
\* numTerritorios, and the calloc'd arrays.
Init ==
    /\ \E e \in EntradasConfiguracao :
           /\ e[1] \in MIN_JOGADORES..MAX_JOGADORES
           /\ e[2] \in MIN_TERRITORIOS..MAX_TERRITORIOS
           /\ numJogadores = e[1]
           /\ numTerritorios = IF e[2] < e[1] THEN e[1] + 2 ELSE e[2]
    /\ mapa = [i \in 0..(numTerritorios - 1) |-> TerritorioZerado]
    /\ jogadores = [j \in 0..(numJogadores - 1) |-> JogadorZerado]
    /\ pc = "cadastrarJogadores"
    /\ turno = 1
    /\ vencedor = -1
    /\ indiceAtacante = -1
    /\ indiceDefensor = -1
    /\ mensagem = ""
    /\ UnidadeParada

\* cadastrarJogadores taking the colour from cores[i % 5].
CadastrarJogadoresCincoCores ==
    /\ pc = "cadastrarJogadores"
    /\ \E s \in SorteiosMissao :
           jogadores' = [i \in 0..(numJogadores - 1) |->
               [nome |-> NomesJogador[i + 1],
                cor |-> cores[(i % 5) + 1],
                missao |-> missoes[(sorteado(s, i) % TOTAL_MISSOES) + 1],
                ativo |-> TRUE,
                territoriosControlados |-> 0]]
    /\ pc' = "nomesTerritorios"
    /\ UNCHANGED <<numJogadores, numTerritorios, mapa, turno, vencedor,
                   indiceAtacante, indiceDefensor, mensagem>>
    /\ UNCHANGED unidade

\* cadastrarJogadores: name, colour cores[i % 6], active, no territory, and a
\* mission missoes[rand() % TOTAL_MISSOES] for each player.
CadastrarJogadores ==
    /\ pc = "cadastrarJogadores"
    /\ \E s \in SorteiosMissao :
           jogadores' = [i \in 0..(numJogadores - 1) |->
               [nome |-> NomesJogador[i + 1],
                cor |-> cores[(i % 6) + 1],
                missao |-> missoes[(sorteado(s, i) % TOTAL_MISSOES) + 1],
                ativo |-> TRUE,
                territoriosControlados |-> 0]]
    /\ pc' = "nomesTerritorios"
    /\ UNCHANGED <<numJogadores, numTerritorios, mapa, turno, vencedor,
                   indiceAtacante, indiceDefensor, mensagem>>
    /\ UNCHANGED unidade

\* main, phase 6: the name of each territory is read.
LerNomesTerritorios ==
    /\ pc = "nomesTerritorios"
    /\ mapa' = [i \in DOMAIN mapa |-> [mapa[i] EXCEPT !.nome = NomesTerritorio[i + 1]]]
    /\ pc' = "distribuirTerritorios"
    /\ UNCHANGED <<numJogadores, numTerritorios, jogadores, turno, vencedor,
                   indiceAtacante, indiceDefensor, mensagem>>
    /\ UNCHANGED unidade

\* distribuirTerritorios drawing (rand() % 5) + 1 troops.
DistribuirTerritoriosDe1a5 ==
    /\ pc = "distribuirTerritorios"
    /\ \E s \in SorteiosTropas :
           mapa' = [i \in DOMAIN mapa |->
               LET jogadorAtual == i % numJogadores
               IN  [mapa[i] EXCEPT !.cor = jogadores[jogadorAtual].cor,
                                   !.dono = jogadores[jogadorAtual].nome,
                                   !.tropas = (sorteado(s, i) % 5) + 1]]
    /\ pc' = "estatisticasIniciais"
    /\ UNCHANGED <<numJogadores, numTerritorios, jogadores, turno, vencedor,
                   indiceAtacante, indiceDefensor, mensagem>>
    /\ UNCHANGED unidade

\* distribuirTerritorios: territory i goes to player i % numJogadores with
\* (rand() % 5) + 2 troops.
DistribuirTerritorios ==
    /\ pc = "distribuirTerritorios"
    /\ \E s \in SorteiosTropas :
           mapa' = [i \in DOMAIN mapa |->
               LET jogadorAtual == i % numJogadores
               IN  [mapa[i] EXCEPT !.cor = jogadores[jogadorAtual].cor,
                                   !.dono = jogadores[jogadorAtual].nome,
                                   !.tropas = (sorteado(s, i) % 5) + 2]]
    /\ pc' = "estatisticasIniciais"
    /\ UNCHANGED <<numJogadores, numTerritorios, jogadores, turno, vencedor,
                   indiceAtacante, indiceDefensor, mensagem>>
    /\ UNCHANGED unidade

\* main, phase 7: atualizarEstatisticasJogadores on the initial map.
EstatisticasIniciais ==
    /\ pc = "estatisticasIniciais"
    /\ jogadores' = atualizarEstatisticasJogadores(jogadores, numJogadores,
                                                   mapa, numTerritorios)
    /\ pc' = "batalha"
    /\ UNCHANGED <<numJogadores, numTerritorios, mapa, turno, vencedor,
                   indiceAtacante, indiceDefensor, mensagem>>
    /\ UNCHANGED unidade

\* ------------------------------------------------------------------------
\* The round loop of main (phase 8)
\* ------------------------------------------------------------------------
\* executarBatalhaMultiplayer, the two input loops: an index outside
\* 1..numTerritorios is refused and asked again.
LerIndiceInvalido ==
    /\ pc = "batalha"
    /\ \E entrada \in {0, numTerritorios + 1} :
           /\ (entrada < 1 \/ entrada > numTerritorios)
           /\ mensagem' = "IndiceInvalido"
    /\ UNCHANGED <<numJogadores, numTerritorios, mapa, jogadores, pc, turno,
                   vencedor, indiceAtacante, indiceDefensor>>
    /\ UNCHANGED unidade

\* executarBatalhaMultiplayer once both indices were read (1-based entries
\* ea, ed): the self-attack check, validarAtaque, and atacar with its dice.
ExecutarBatalhaMultiplayer ==
    /\ pc = "batalha"
    /\ \E ea \in 1..numTerritorios, ed \in 1..numTerritorios :
         LET ia == ea - 1
             id == ed - 1
         IN  /\ indiceAtacante' = ia
             /\ indiceDefensor' = id
             /\ IF ia = id
                THEN /\ mensagem' = "MesmoTerritorio"
                     /\ mapa' = mapa
                ELSE IF validarAtaque(mapa[ia], mapa[id]) # ""
                THEN /\ mensagem' = validarAtaque(mapa[ia], mapa[id])
                     /\ mapa' = mapa
                ELSE \E ra \in SorteiosDadoSessao, rd \in SorteiosDadoSessao :
                       LET r == atacar(mapa[ia], mapa[id],
                                       simularDado(ra), simularDado(rd))
                       IN  /\ mapa' = [mapa EXCEPT ![ia] = r.atacante,
                                                   ![id] = r.defensor]
                           /\ mensagem' = r.resultado
    /\ pc' = "estatisticas"
    /\ UNCHANGED <<numJogadores, numTerritorios, jogadores, turno, vencedor>>
    /\ UNCHANGED unidade

\* main: atualizarEstatisticasJogadores after the round; the indices of the
\* round are gone with executarBatalhaMultiplayer's frame.
AtualizarEstatisticas ==
    /\ pc = "estatisticas"
    /\ jogadores' = atualizarEstatisticasJogadores(jogadores, numJogadores,
                                                   mapa, numTerritorios)
    /\ indiceAtacante' = -1
    /\ indiceDefensor' = -1
    /\ pc' = "verificarVencedor"
    /\ UNCHANGED <<numJogadores, numTerritorios, mapa, turno, vencedor, mensagem>>
    /\ UNCHANGED unidade

\* main: vencedor = verificarVencedor(...); a winner leaves the loop.
VerificarVencedor ==
    /\ pc = "verificarVencedor"
    /\ vencedor' = verificarVencedor(jogadores, numJogadores, mapa, numTerritorios)
    /\ pc' = IF vencedor' # -1 THEN "fim" ELSE "contarAtivos"
    /\ UNCHANGED <<numJogadores, numTerritorios, mapa, jogadores, turno,
                   indiceAtacante, indiceDefensor, mensagem>>
    /\ UNCHANGED unidade

\* main: jogadoresAtivos
jogadoresAtivos(js) == Cardinality({j \in DOMAIN js : js[j].ativo})

\* Variant of ContarAtivos that leaves the loop only when no player is
\* active.
ContarAtivosSoSemNenhum ==
    /\ pc = "contarAtivos"
    /\ pc' = IF jogadoresAtivos(jogadores) < 1 THEN "fim" ELSE "continuar"
    /\ UNCHANGED <<numJogadores, numTerritorios, mapa, jogadores, turno, vencedor,
                   indiceAtacante, indiceDefensor, mensagem>>
    /\ UNCHANGED unidade

\* main: at most one active player leaves the loop.
ContarAtivos ==
    /\ pc = "contarAtivos"
    /\ pc' = IF jogadoresAtivos(jogadores) <= 1 THEN "fim" ELSE "continuar"
    /\ UNCHANGED <<numJogadores, numTerritorios, mapa, jogadores, turno, vencedor,
                   indiceAtacante, indiceDefensor, mensagem>>
    /\ UNCHANGED unidade

\* main: the user answers 's' or 'S'; turno++ and the loop starts the next
\* turn on a cleared screen.
Continuar ==
    /\ pc = "continuar"
    /\ turno < MaxTurno
    /\ \E continuar \in {"s", "S"} :
           /\ turno' = turno + 1
           /\ pc' = IF continuar = "s" \/ continuar = "S" THEN "batalha" ELSE "fim"
    /\ mensagem' = ""
    /\ UNCHANGED <<numJogadores, numTerritorios, mapa, jogadores, vencedor,
                   indiceAtacante, indiceDefensor>>
    /\ UNCHANGED unidade

\* main: the user answers anything else; turno++ and the loop ends.
Parar ==
    /\ pc = "continuar"
    /\ \E continuar \in {"n", "N"} :
           /\ turno' = turno + 1
           /\ pc' = IF continuar = "s" \/ continuar = "S" THEN "batalha" ELSE "fim"
    /\ UNCHANGED <<numJogadores, numTerritorios, mapa, jogadores, vencedor,
                   indiceAtacante, indiceDefensor, mensagem>>
    /\ UNCHANGED unidade

Next ==
    \/ CadastrarJogadores
    \/ LerNomesTerritorios
    \/ DistribuirTerritorios
    \/ EstatisticasIniciais
    \/ LerIndiceInvalido
    \/ ExecutarBatalhaMultiplayer
    \/ AtualizarEstatisticas
    \/ VerificarVencedor
    \/ ContarAtivos
    \/ Continuar
    \/ Parar

Spec == Init /\ [][Next]_vars

\* ------------------------------------------------------------------------
\* atacar on its own
\* ------------------------------------------------------------------------
\* SpecPrimeiroTurno: the sessions of every number of players, which the
\* user ends at the first question
\* ------------------------------------------------------------------------
\* Every number of players obterNumeroJogadores accepts, with the smallest
\* number of territories obterNumeroTerritorios accepts.
EntradasTodosJogadores == {<<n, MIN_TERRITORIOS>> : n \in MIN_JOGADORES..MAX_JOGADORES}

InitPrimeiroTurno ==
    /\ \E e \in EntradasTodosJogadores :
           /\ e[1] \in MIN_JOGADORES..MAX_JOGADORES
           /\ e[2] \in MIN_TERRITORIOS..MAX_TERRITORIOS
           /\ numJogadores = e[1]
           /\ numTerritorios = IF e[2] < e[1] THEN e[1] + 2 ELSE e[2]
    /\ mapa = [i \in 0..(numTerritorios - 1) |-> TerritorioZerado]
    /\ jogadores = [j \in 0..(numJogadores - 1) |-> JogadorZerado]
    /\ pc = "cadastrarJogadores"
    /\ turno = 1
    /\ vencedor = -1
    /\ indiceAtacante = -1
    /\ indiceDefensor = -1
    /\ mensagem = ""
    /\ UnidadeParada

NextPrimeiroTurno ==
    \/ CadastrarJogadores
    \/ LerNomesTerritorios
    \/ DistribuirTerritorios
    \/ EstatisticasIniciais
    \/ LerIndiceInvalido
    \/ ExecutarBatalhaMultiplayer
    \/ AtualizarEstatisticas
    \/ VerificarVencedor
    \/ ContarAtivos
    \/ Parar

SpecPrimeiroTurno == InitPrimeiroTurno /\ [][NextPrimeiroTurno]_vars

\* ------------------------------------------------------------------------
\* SpecDesgaste: the round loop of a long session on the map with the
\* fewest troops
\* ------------------------------------------------------------------------
\* The user is not asked to continue once this turn of a long session has
\* been played.
MaxTurnoDesgaste == 6

\* main when the first round is about to start, for 2 players and 5
\* territories, every rand() of the setup having returned a multiple of 40:
\* CONQUISTADOR for both players and 2 troops on every territory.
InitDesgaste ==
    /\ numJogadores = MIN_JOGADORES
    /\ numTerritorios = MIN_TERRITORIOS
    /\ mapa = [i \in 0..(numTerritorios - 1) |->
                  [nome |-> NomesTerritorio[i + 1],
                   dono |-> NomesJogador[(i % numJogadores) + 1],
                   cor |-> cores[(i % numJogadores) + 1],
                   tropas |-> (0 % 5) + 2]]
    /\ jogadores = atualizarEstatisticasJogadores(
                       [j \in 0..(numJogadores - 1) |->
                           [nome |-> NomesJogador[j + 1],
                            cor |-> cores[(j % 6) + 1],
                            missao |-> missoes[(0 % TOTAL_MISSOES) + 1],
                            ativo |-> TRUE,
                            territoriosControlados |-> 0]],
                       numJogadores, mapa, numTerritorios)
    /\ pc = "batalha"
    /\ turno = 1
    /\ vencedor = -1
    /\ indiceAtacante = -1
    /\ indiceDefensor = -1
    /\ mensagem = ""
    /\ UnidadeParada

\* main: the user answers 's' or 'S' in a long session; turno++ and the
\* loop starts the next turn on a cleared screen.
ContinuarDesgaste ==
    /\ pc = "continuar"
    /\ turno < MaxTurnoDesgaste
    /\ \E continuar \in {"s", "S"} :
           /\ turno' = turno + 1
           /\ pc' = IF continuar = "s" \/ continuar = "S" THEN "batalha" ELSE "fim"
    /\ mensagem' = ""
    /\ UNCHANGED <<numJogadores, numTerritorios, mapa, jogadores, vencedor,
                   indiceAtacante, indiceDefensor>>
    /\ UNCHANGED unidade

NextDesgaste ==
    \/ LerIndiceInvalido
    \/ ExecutarBatalhaMultiplayer
    \/ AtualizarEstatisticas
    \/ VerificarVencedor
    \/ ContarAtivos
    \/ ContinuarDesgaste
    \/ Parar

SpecDesgaste == InitDesgaste /\ [][NextDesgaste]_vars

\* ------------------------------------------------------------------------
\* Idle value of the variables of the session.
SessaoParada ==
    /\ numJogadores = 0
    /\ numTerritorios = 0
    /\ mapa = <<>>
    /\ jogadores = <<>>
    /\ pc = "atacar"
    /\ turno = 0
    /\ vencedor = -1
    /\ indiceAtacante = -1
    /\ indiceDefensor = -1
    /\ mensagem = ""

\* The pairs of territories executarBatalhaMultiplayer passes to atacar: two
\* colours that differ, an attacker with at least 2 troops, a defender with
\* at least 1.
InitAtacar ==
    /\ SessaoParada
    /\ \E ja \in 1..2, ta \in 2..MaxTropas, td \in 1..MaxTropas :
           /\ atacante = [nome |-> "T1", dono |-> NomesJogador[ja],
                          cor |-> cores[ja], tropas |-> ta]
           /\ defensor = [nome |-> "T2", dono |-> NomesJogador[3 - ja],
                          cor |-> cores[3 - ja], tropas |-> td]
    /\ antes = <<atacante, defensor>>
    /\ dadoAtacante = 0
    /\ dadoDefensor = 0
    /\ retorno = [sucesso |-> FALSE, resultado |-> "", rolou |-> FALSE]
    /\ AvaliacaoParada

\* One call of atacar.
Atacar ==
    /\ pc = "atacar"
    /\ \E ra \in SorteiosDado, rd \in SorteiosDado :
         LET r == atacar(atacante, defensor, simularDado(ra), simularDado(rd))
         IN  /\ dadoAtacante' = IF r.rolou THEN simularDado(ra) ELSE 0
             /\ dadoDefensor' = IF r.rolou THEN simularDado(rd) ELSE 0
             /\ atacante' = r.atacante
             /\ defensor' = r.defensor
             /\ retorno' = [sucesso |-> r.sucesso, resultado |-> r.resultado,
                            rolou |-> r.rolou]
    /\ pc' = "retornou"
    /\ UNCHANGED <<numJogadores, numTerritorios, mapa, jogadores, turno, vencedor,
                   indiceAtacante, indiceDefensor, mensagem, antes,
                   missaoAvaliada, corAvaliada, cumprida>>

NextAtacar == Atacar

SpecAtacar == InitAtacar /\ [][NextAtacar]_vars

\* ------------------------------------------------------------------------
\* SpecMissao: one call of verificarMissao
\* ------------------------------------------------------------------------
\* Sizes of the maps handed to verificarMissao on its own: an odd size, an
\* even size, and a size at which one player can hold more than 30 troops.
TamanhosAvaliados == {5, 6, 12}
\* Troop count of the territories that do not hold 6 troops.
TropasBaixas == {1, 5}

\* A map of tamanho territories as a game leaves it: the first k belong to
\* the first player and the others to the second, the first t hold 6 troops
\* and the others hold baixa.
mapaAvaliado(tamanho, k, t, baixa) ==
    [i \in 0..(tamanho - 1) |->
        [nome |-> NomesTerritorio[i + 1],
         dono |-> IF i < k THEN NomesJogador[1] ELSE NomesJogador[2],
         cor |-> IF i < k THEN cores[1] ELSE cores[2],
         tropas |-> IF i < t THEN 6 ELSE baixa]]

\* A mission of the catalog or of a player not yet registered, a map, and
\* the colour of one of three players, the third of which owns nothing.
InitMissao ==
    /\ \E tamanho \in TamanhosAvaliados :
           /\ numTerritorios = tamanho
           /\ \E k \in 0..tamanho, t \in 0..tamanho, baixa \in TropasBaixas :
                  mapa = mapaAvaliado(tamanho, k, t, baixa)
    /\ missaoAvaliada \in {missoes[n] : n \in 1..TOTAL_MISSOES} \cup {"NULL"}
    /\ corAvaliada \in {cores[1], cores[2], cores[3]}
    /\ cumprida = -1
    /\ numJogadores = 0
    /\ jogadores = <<>>
    /\ pc = "verificarMissao"
    /\ turno = 0
    /\ vencedor = -1
    /\ indiceAtacante = -1
    /\ indiceDefensor = -1
    /\ mensagem = ""
    /\ atacante = TerritorioZerado
    /\ defensor = TerritorioZerado
    /\ antes = <<TerritorioZerado, TerritorioZerado>>
    /\ dadoAtacante = 0
    /\ dadoDefensor = 0
    /\ retorno = [sucesso |-> FALSE, resultado |-> "", rolou |-> FALSE]

\* One call of verificarMissao: 1 or 0.
VerificarMissao ==
    /\ pc = "verificarMissao"
    /\ cumprida' = IF verificarMissao(missaoAvaliada, mapa, numTerritorios, corAvaliada)
                   THEN 1 ELSE 0
    /\ pc' = "retornou"
    /\ UNCHANGED <<numJogadores, numTerritorios, mapa, jogadores, turno, vencedor,
                   indiceAtacante, indiceDefensor, mensagem,
                   atacante, defensor, antes, dadoAtacante, dadoDefensor, retorno,
                   missaoAvaliada, corAvaliada>>

NextMissao == VerificarMissao

SpecMissao == InitMissao /\ [][NextMissao]_vars

\* ------------------------------------------------------------------------
\* Properties
\* ------------------------------------------------------------------------
Max(a, b) == IF a > b THEN a ELSE b

\* The reasons for which a round refuses its selection, and the outcomes of
\* a battle.
RejeicoesDaRodada == {"MesmoTerritorio", "MesmaCor", "TropasInsuficientes"}
Rejeicoes == RejeicoesDaRodada \cup {"IndiceInvalido"}
Resultados == {"Conquistou", "Repelido", "Empate"}

\* C1: in every state of a session, from the calloc'd map through setup and
\* every round, every territory has a troop count >= 0.
C1_TropasNaoNegativas ==
    \A i \in DOMAIN mapa : mapa[i].tropas >= 0

\* A session ended after two turns with a territory worn down to 1 troop.
C1_Witness ==
    /\ pc = "fim"
    /\ turno >= 2
    /\ \E i \in DOMAIN mapa : mapa[i].tropas = 1

\* C2: when atacar rolls a higher die for the attacker, with a the attacker's
\* troops before: transferred = max(1, a \div 2), the attacker keeps
\* a - transferred, the defender holds transferred troops and has the
\* attacker's colour and owner name.
C2_Conquista ==
    (pc = "retornou" /\ dadoAtacante > dadoDefensor) =>
        LET a == antes[1].tropas
            transferidas == Max(1, a \div 2)
        IN  /\ retorno.resultado = "Conquistou"
            /\ atacante.tropas = a - transferidas
            /\ defensor.tropas = transferidas
            /\ defensor.cor = antes[1].cor
            /\ defensor.dono = antes[1].dono
            /\ atacante.cor = antes[1].cor
            /\ atacante.dono = antes[1].dono

\* A conquest by an attacker with 5 troops: 2 are moved, 3 stay.
C2_Witness ==
    /\ pc = "retornou"
    /\ dadoAtacante > dadoDefensor
    /\ antes[1].tropas = 5
    /\ defensor.tropas = 2
    /\ defensor.cor = atacante.cor
    /\ antes[2].cor # antes[1].cor

\* C3: when atacar rolls a higher die for the defender, the attacker has
\* exactly one troop less than before and no field of the defender changes.
C3_Repelido ==
    (pc = "retornou" /\ dadoDefensor > dadoAtacante) =>
        /\ retorno.resultado = "Repelido"
        /\ atacante.tropas = antes[1].tropas - 1
        /\ defensor = antes[2]

\* A repelled attacker that had 2 troops and is left with 1, facing a
\* defender with several troops.
C3_Witness ==
    /\ pc = "retornou"
    /\ dadoDefensor > dadoAtacante
    /\ antes[1].tropas = 2
    /\ atacante.tropas = 1
    /\ defensor.tropas >= 2

\* C4: both dice of atacar are in 1..6; the attack ends in exactly one of
\* Conquistou, Repelido, Empate, the one the comparison of the dice selects;
\* and with equal dice no field of the attacker or of the defender changes.
C4_DadosEResultado ==
    pc = "retornou" =>
        /\ dadoAtacante \in DADO_MIN..DADO_MAX
        /\ dadoDefensor \in DADO_MIN..DADO_MAX
        /\ retorno.resultado \in Resultados
        /\ (retorno.resultado = "Conquistou") = (dadoAtacante > dadoDefensor)
        /\ (retorno.resultado = "Repelido") = (dadoDefensor > dadoAtacante)
        /\ (retorno.resultado = "Empate") = (dadoAtacante = dadoDefensor)
        /\ (dadoAtacante = dadoDefensor =>
                /\ atacante = antes[1]
                /\ defensor = antes[2]
                /\ ~retorno.sucesso)

\* A draw with two sixes.
C4_Witness ==
    /\ pc = "retornou"
    /\ dadoAtacante = 6
    /\ dadoDefensor = 6
    /\ retorno.resultado = "Empate"

\* What a round leaves alone when it refuses a selection.
EstadoDoJogoInalterado ==
    /\ mapa' = mapa
    /\ jogadores' = jogadores
    /\ numJogadores' = numJogadores
    /\ numTerritorios' = numTerritorios
    /\ turno' = turno
    /\ vencedor' = vencedor

\* executarBatalhaMultiplayer returns: the step from the selection to the
\* statistics of the round.
RodadaRetorna == pc = "batalha" /\ pc' = "estatisticas"

\* C5: a selection whose attacking territory has at most 1 troop is always
\* refused by the round, whatever the defender and whatever the dice would
\* be: no battle outcome is applied and no territory or player field changes.
C5_SemTropasRejeitado ==
    [][(RodadaRetorna /\ mapa[indiceAtacante'].tropas <= 1) =>
          /\ mensagem' \in RejeicoesDaRodada
          /\ EstadoDoJogoInalterado]_vars

\* An attacker worn down to 1 troop is refused against an enemy territory.
C5_Witness ==
    /\ pc = "estatisticas"
    /\ mensagem = "TropasInsuficientes"
    /\ mapa[indiceAtacante].tropas = 1
    /\ mapa[indiceAtacante].cor # mapa[indiceDefensor].cor

\* C6: a selection of two territories of the same colour is always refused,
\* whatever their troop counts: no battle is resolved and no territory field
\* changes.
C6_MesmaCorRejeitado ==
    [][(RodadaRetorna /\ mapa[indiceAtacante'].cor = mapa[indiceDefensor'].cor) =>
          /\ mensagem' \in {"MesmaCor", "MesmoTerritorio"}
          /\ EstadoDoJogoInalterado]_vars

\* Two distinct territories of one colour, the attacker with 6 troops.
C6_Witness ==
    /\ pc = "estatisticas"
    /\ mensagem = "MesmaCor"
    /\ indiceAtacante # indiceDefensor
    /\ mapa[indiceAtacante].cor = mapa[indiceDefensor].cor
    /\ mapa[indiceAtacante].tropas = 6

\* The reason a round gives for a selection of valid indices ia, id on map m:
\* the first check that fails, "" when the battle takes place.
MotivoEsperado(m, ia, id) ==
    IF ia = id THEN "MesmoTerritorio"
    ELSE IF m[ia].cor = m[id].cor THEN "MesmaCor"
    ELSE IF m[ia].tropas <= 1 THEN "TropasInsuficientes"
    ELSE ""

\* C7: the four invalid requests (index out of range, attacker = defender,
\* same colour, attacker with at most 1 troop) are answered with four
\* different reasons, each given exactly when its check is the first to fail,
\* and each leaves every territory and player field as it was.
C7_RejeicoesDistintas ==
    [][/\ Cardinality(Rejeicoes) = 4
       /\ (pc = "batalha" /\ pc' = "batalha" /\ mensagem' # mensagem) =>
              /\ mensagem' = "IndiceInvalido"
              /\ EstadoDoJogoInalterado
       /\ RodadaRetorna =>
              LET motivo == MotivoEsperado(mapa, indiceAtacante', indiceDefensor')
              IN  /\ mensagem' # "IndiceInvalido"
                  /\ (motivo # "") => (mensagem' = motivo /\ EstadoDoJogoInalterado)
                  /\ (motivo = "") => mensagem' \in Resultados]_vars

\* In the second turn, on a map a battle has changed, an index out of range
\* is refused and asked again.
C7_Witness ==
    /\ pc = "batalha"
    /\ turno = 2
    /\ mensagem = "IndiceInvalido"
    /\ \E i \in DOMAIN mapa : mapa[i].tropas = 1

\* C8 as claimed: a refused selection (same territory, same colour, at most
\* 1 troop) puts the controller back at the selection of the same round with
\* nothing changed.
C8_Original ==
    [][(pc = "batalha" /\ mensagem' \in RejeicoesDaRodada) =>
          /\ pc' = "batalha"
          /\ EstadoDoJogoInalterado]_vars

\* C8, amended: a refused selection changes no territory and no player, but
\* it uses up the round: the controller goes on to the statistics (which
\* change nothing), the win check and the count of active players, and the
\* turn counter is advanced before the next selection is made.
C8_RejeicaoConsomeRodada ==
    [][/\ (pc = "batalha" /\ mensagem' \in RejeicoesDaRodada) =>
              (pc' = "estatisticas" /\ EstadoDoJogoInalterado)
       /\ (mensagem \in RejeicoesDaRodada /\ pc = "estatisticas") =>
              (pc' = "verificarVencedor" /\ EstadoDoJogoInalterado)
       /\ (mensagem \in RejeicoesDaRodada /\ pc = "verificarVencedor") =>
              /\ pc' \in {"contarAtivos", "fim"}
              /\ vencedor' = verificarVencedor(jogadores, numJogadores,
                                               mapa, numTerritorios)
       /\ (mensagem \in RejeicoesDaRodada /\ pc = "contarAtivos") =>
              pc' \in {"continuar", "fim"}
       /\ (mensagem \in RejeicoesDaRodada /\ pc = "continuar") =>
              turno' = turno + 1
       /\ (mensagem \in RejeicoesDaRodada /\ pc' = "batalha") =>
              (pc = "continuar" /\ turno' = turno + 1 /\ mensagem' = "")]_vars

\* The first round refused its selection and the win check that followed
\* ended the session with a winner.
C8_Witness ==
    /\ pc = "fim"
    /\ turno = 1
    /\ mensagem \in RejeicoesDaRodada
    /\ vencedor # -1

\* The players a win check can return: active, with a mission that
\* evaluates true against the player's own colour.
Candidatos ==
    {j \in DOMAIN jogadores :
        /\ jogadores[j].ativo
        /\ verificarMissao(jogadores[j].missao, mapa, numTerritorios, jogadores[j].cor)}

\* C9: after the win check of a round, vencedor is the lowest index of an
\* active player whose own mission evaluates true against the player's own
\* colour, and -1 exactly when there is no such player; a winner ends the
\* session.
C9_MenorIndiceVence ==
    /\ pc \in {"contarAtivos", "continuar", "fim"} =>
          /\ (Candidatos = {}) = (vencedor = -1)
          /\ Candidatos # {} =>
                /\ vencedor \in Candidatos
                /\ \A j \in Candidatos : vencedor <= j
    /\ vencedor # -1 => pc = "fim"

\* Two players satisfy their missions at once and the first of them wins.
C9_Witness ==
    /\ pc = "fim"
    /\ vencedor = 0
    /\ Cardinality(Candidatos) >= 2

\* The positions of main inside the round loop at which the counters of
\* the last atualizarEstatisticasJogadores are current.
EstatisticasAtuais ==
    pc \in {"batalha", "verificarVencedor", "contarAtivos", "continuar", "fim"}

\* C10: a player left with territoriosControlados = 0 by
\* atualizarEstatisticasJogadores is inactive after that call, an inactive
\* player never becomes active again in the round loop, and the winner is
\* never an inactive player.
C10_EliminadoFicaFora ==
    /\ [](EstatisticasAtuais =>
            \A j \in DOMAIN jogadores :
                jogadores[j].territoriosControlados = 0 => ~jogadores[j].ativo)
    /\ [](vencedor # -1 => jogadores[vencedor].ativo)
    /\ [][(EstatisticasAtuais \/ pc = "estatisticas") =>
            \A j \in DOMAIN jogadores :
                ~jogadores[j].ativo => /\ ~jogadores'[j].ativo
                                       /\ vencedor' # j]_vars

\* A player eliminated in the first turn is still out at the win check of
\* the second turn.
C10_Witness ==
    /\ pc = "contarAtivos"
    /\ turno = 2
    /\ \E j \in DOMAIN jogadores :
          /\ ~jogadores[j].ativo
          /\ jogadores[j].territoriosControlados = 0
          /\ vencedor # j

\* The session has ended without a satisfied mission and with at most one
\* player still active.
FimPorFaltaDeJogadores ==
    /\ pc = "fim"
    /\ Candidatos = {}
    /\ jogadoresAtivos(jogadores) <= 1

\* C11 as claimed: when a round leaves no mission satisfied and at most one
\* active player, the session ends with that player as its winner (with no
\* winner when no player is active).
C11_Original ==
    FimPorFaltaDeJogadores =>
        /\ \A j \in DOMAIN jogadores : jogadores[j].ativo => vencedor = j
        /\ jogadoresAtivos(jogadores) = 0 => vencedor = -1

\* C11, amended: when a round leaves no mission satisfied and at most one
\* active player, the session ends at once, in the same turn and with the
\* map and the players as they are, and it records no winner: vencedor
\* stays -1 and the remaining player is only known by its ativo flag.
C11_FimSemVencedor ==
    /\ [](pc = "contarAtivos" => (vencedor = -1 /\ Candidatos = {}))
    /\ [](FimPorFaltaDeJogadores => vencedor = -1)
    /\ [][(pc = "contarAtivos" /\ jogadoresAtivos(jogadores) <= 1) =>
             /\ pc' = "fim"
             /\ vencedor' = -1
             /\ UNCHANGED <<mapa, jogadores, turno>>]_vars

\* The second round eliminated the second of two players and the session
\* ended with one active player and no winner.
C11_Witness ==
    /\ FimPorFaltaDeJogadores
    /\ turno = 2
    /\ jogadoresAtivos(jogadores) = 1
    /\ vencedor = -1

\* The territories of the map that carry the colour of player j.
TerritoriosDe(j) == {i \in DOMAIN mapa : mapa[i].cor = jogadores[j].cor}

\* C12: atualizarEstatisticasJogadores sets territoriosControlados of every
\* player to the number of territories whose colour is the player's colour,
\* whatever the counter held before the call.
C12_ContagemExata ==
    /\ [](EstatisticasAtuais =>
            \A j \in DOMAIN jogadores :
                jogadores[j].territoriosControlados = Cardinality(TerritoriosDe(j)))
    /\ [][(pc \in {"estatisticasIniciais", "estatisticas"}) =>
            (\A j \in DOMAIN jogadores :
                jogadores'[j].territoriosControlados =
                    Cardinality(TerritoriosDe(j)))]_vars

\* The statistics are about to be recomputed after the second conquest in
\* a row: the counters of two players are out of date by one.
C12_Witness ==
    /\ pc = "estatisticas"
    /\ turno = 2
    /\ mensagem = "Conquistou"
    /\ \E j, k \in DOMAIN jogadores :
          /\ jogadores[j].territoriosControlados = Cardinality(TerritoriosDe(j)) - 1
          /\ jogadores[k].territoriosControlados = Cardinality(TerritoriosDe(k)) + 1
          /\ jogadores[j].territoriosControlados >= 4

\* The territories of the evaluated map that carry the evaluated colour.
Avaliados == {i \in DOMAIN mapa : mapa[i].cor = corAvaliada}

\* C13: verificarMissao returns 1 for IMPERADOR exactly when the colour owns
\* more than half of the map by integer division, that is when twice its
\* territories exceed the size of the map: with 5 territories 3 are enough
\* and 2 are not, and exactly half of an even map is not enough.
C13_Imperador ==
    (pc = "retornou" /\ missaoAvaliada = "IMPERADOR") =>
        /\ cumprida \in {0, 1}
        /\ (cumprida = 1) = (2 * Cardinality(Avaliados) > numTerritorios)
        /\ (numTerritorios = 5 /\ Cardinality(Avaliados) = 3) => cumprida = 1
        /\ (numTerritorios = 5 /\ Cardinality(Avaliados) = 2) => cumprida = 0
        /\ (2 * Cardinality(Avaliados) = numTerritorios) => cumprida = 0

\* IMPERADOR was evaluated for a colour that owns exactly half of an even
\* map, and returned 0.
C13_Witness ==
    /\ pc = "retornou"
    /\ missaoAvaliada = "IMPERADOR"
    /\ numTerritorios = 6
    /\ Cardinality(Avaliados) = 3
    /\ cumprida = 0

\* The sum of the troops of the territories I of the evaluated map.
RECURSIVE SomaTropas(_)
SomaTropas(I) ==
    IF I = {} THEN 0
    ELSE LET i == CHOOSE x \in I : TRUE
         IN  mapa[i].tropas + SomaTropas(I \ {i})

\* C14: for every map and colour verificarMissao returns 1 for CONQUISTADOR
\* exactly when the colour owns at least 5 territories, for EXPANSIONISTA
\* exactly when it owns at least 4, for ESTRATEGISTA exactly when at least 3
\* of its territories hold more than 5 troops each, and for GENERAL SUPREMO
\* exactly when its territories hold more than 30 troops together.
C14_MissoesAvaliadas ==
    pc = "retornou" =>
        /\ missaoAvaliada = "CONQUISTADOR" =>
              (cumprida = 1) = (Cardinality(Avaliados) >= 5)
        /\ missaoAvaliada = "EXPANSIONISTA" =>
              (cumprida = 1) = (Cardinality(Avaliados) >= 4)
        /\ missaoAvaliada = "ESTRATEGISTA" =>
              (cumprida = 1) =
                  (Cardinality({i \in Avaliados : mapa[i].tropas > 5}) >= 3)
        /\ missaoAvaliada = "GENERAL SUPREMO" =>
              (cumprida = 1) = (SomaTropas(Avaliados) > 30)
        /\ missaoAvaliada \in {"CONQUISTADOR", "EXPANSIONISTA", "ESTRATEGISTA",
                               "GENERAL SUPREMO"} => cumprida \in {0, 1}

\* GENERAL SUPREMO was evaluated for a colour that holds exactly 31 troops
\* on 6 territories, fewer than 3 of them with more than 5 troops, and
\* returned 1.
C14_Witness ==
    /\ pc = "retornou"
    /\ missaoAvaliada = "GENERAL SUPREMO"
    /\ Cardinality(Avaliados) = 6
    /\ SomaTropas(Avaliados) = 31
    /\ Cardinality({i \in Avaliados : mapa[i].tropas > 5}) < 3
    /\ cumprida = 1

\* The missions verificarMissao has no rule for.
MissoesSemRegra == {"DOMINACAO TOTAL", "LIBERTADOR", "FORTALEZA"}

\* C15: in every state of a session verificarMissao is false for DOMINACAO
\* TOTAL, LIBERTADOR and FORTALEZA on the map as it stands and for every
\* colour, and the winner is never a player who holds one of these missions.
C15_SemRegraNuncaVence ==
    /\ \A missao \in MissoesSemRegra, c \in DOMAIN cores :
           ~verificarMissao(missao, mapa, numTerritorios, cores[c])
    /\ vencedor # -1 => jogadores[vencedor].missao \notin MissoesSemRegra

\* A player whose mission is DOMINACAO TOTAL has captured every territory
\* of the only other player, and the session ended without a winner.
C15_Witness ==
    /\ pc = "fim"
    /\ numJogadores = 2
    /\ vencedor = -1
    /\ \E j \in DOMAIN jogadores :
          /\ jogadores[j].ativo
          /\ jogadores[j].missao = "DOMINACAO TOTAL"
          /\ Cardinality(TerritoriosDe(j)) = numTerritorios

\* The map is as distribuirTerritorios left it: no battle has been fought.
MapaDaDistribuicao ==
    \/ pc = "estatisticasIniciais"
    \/ pc = "batalha" /\ turno = 1

\* C16: after distribuirTerritorios, territory i carries the colour and the
\* name of player i mod numJogadores and holds 2 to 6 troops; so, the map
\* having at least as many territories as there are players, every player
\* owns a territory, counts at least 1 and is active when the first round
\* starts.
C16_Distribuicao ==
    /\ MapaDaDistribuicao =>
          \A i \in DOMAIN mapa :
              /\ mapa[i].cor = jogadores[i % numJogadores].cor
              /\ mapa[i].dono = jogadores[i % numJogadores].nome
              /\ mapa[i].tropas \in 2..6
    /\ (pc = "batalha" /\ turno = 1 /\ numTerritorios >= numJogadores) =>
          \A j \in DOMAIN jogadores :
              /\ TerritoriosDe(j) # {}
              /\ jogadores[j].territoriosControlados >= 1
              /\ jogadores[j].ativo

\* Six players asked for 5 territories and got 8: the first round starts on
\* a map whose troop counts range from 2 to 6 and on which the last player
\* owns one territory only.
C16_Witness ==
    /\ pc = "batalha"
    /\ turno = 1
    /\ numJogadores = 6
    /\ numTerritorios = 8
    /\ \E i, k \in DOMAIN mapa : mapa[i].tropas = 2 /\ mapa[k].tropas = 6
    /\ Cardinality(TerritoriosDe(5)) = 1

\* The scenario of C17 before the attack: 2 players, 5 territories as
\* distribuirTerritorios left them, 6 troops on territory 0 and 2 on
\* territory 1.
CenarioC17 ==
    /\ numJogadores = 2
    /\ numTerritorios = 5
    /\ turno = 1
    /\ mapa[0].tropas = 6
    /\ mapa[1].tropas = 2

\* C17: with 2 players and 5 territories player 0 owns territories 0, 2, 4
\* and player 1 owns 1, 3; when territory 0 with 6 troops attacks territory
\* 1 with 2 troops and rolls the higher die, 3 troops move: territory 0
\* keeps 3, territory 1 holds 3 and takes colour and owner of player 0; the
\* statistics that follow count 4 territories for player 0 and 1 for
\* player 1.
C17_Cenario ==
    /\ []((pc = "batalha" /\ CenarioC17) =>
            /\ TerritoriosDe(0) = {0, 2, 4}
            /\ TerritoriosDe(1) = {1, 3})
    /\ [][(pc = "batalha" /\ CenarioC17 /\ indiceAtacante' = 0
           /\ indiceDefensor' = 1 /\ mensagem' = "Conquistou") =>
            /\ mapa'[0].tropas = 3
            /\ mapa'[1].tropas = 3
            /\ mapa'[1].cor = jogadores[0].cor
            /\ mapa'[1].dono = jogadores[0].nome
            /\ mapa'[0].cor = jogadores[0].cor
            /\ \A i \in 2..4 : mapa'[i] = mapa[i]]_vars
    /\ [][(pc = "estatisticas" /\ numJogadores = 2 /\ numTerritorios = 5
           /\ turno = 1 /\ indiceAtacante = 0 /\ indiceDefensor = 1
           /\ mensagem = "Conquistou"
           /\ mapa[0].tropas = 3 /\ mapa[1].tropas = 3) =>
            /\ jogadores'[0].territoriosControlados = 4
            /\ jogadores'[1].territoriosControlados = 1
            /\ jogadores'[1].ativo]_vars

\* The statistics have been recomputed after territory 0, which had 6
\* troops, conquered territory 1, which had 2: 3 troops on each, 4
\* territories against 1.
C17_Witness ==
    /\ pc = "verificarVencedor"
    /\ numJogadores = 2
    /\ numTerritorios = 5
    /\ turno = 1
    /\ mensagem = "Conquistou"
    /\ mapa[0].tropas = 3
    /\ mapa[1].tropas = 3
    /\ mapa[1].cor = jogadores[0].cor
    /\ \A i \in 2..4 : mapa[i].tropas = i + 1
    /\ jogadores[0].territoriosControlados = 4
    /\ jogadores[1].territoriosControlados = 1

\* The positions of main after the setup: the round loop and the end.
AposConfiguracao ==
    pc \in {"batalha", "estatisticas", "verificarVencedor", "contarAtivos",
            "continuar", "fim"}

\* C18: after the setup no step changes the number of territories or of
\* players, the name of a territory, or the name, colour or mission of a
\* player; a round whose attack is accepted changes nothing but the troops
\* of the attacking and of the defending territory and the colour and owner
\* of the defending territory.
C18_Moldura ==
    /\ [](AposConfiguracao =>
            /\ DOMAIN mapa = 0..(numTerritorios - 1)
            /\ DOMAIN jogadores = 0..(numJogadores - 1))
    /\ [][AposConfiguracao =>
            /\ numTerritorios' = numTerritorios
            /\ numJogadores' = numJogadores
            /\ DOMAIN mapa' = DOMAIN mapa
            /\ DOMAIN jogadores' = DOMAIN jogadores
            /\ \A i \in DOMAIN mapa : mapa'[i].nome = mapa[i].nome
            /\ \A j \in DOMAIN jogadores :
                  /\ jogadores'[j].nome = jogadores[j].nome
                  /\ jogadores'[j].cor = jogadores[j].cor
                  /\ jogadores'[j].missao = jogadores[j].missao]_vars
    /\ [][(RodadaRetorna /\ mensagem' \in Resultados) =>
            /\ jogadores' = jogadores
            /\ \A i \in DOMAIN mapa :
                  (i # indiceAtacante' /\ i # indiceDefensor') => mapa'[i] = mapa[i]
            /\ mapa'[indiceAtacante'].nome = mapa[indiceAtacante'].nome
            /\ mapa'[indiceAtacante'].cor = mapa[indiceAtacante'].cor
            /\ mapa'[indiceAtacante'].dono = mapa[indiceAtacante'].dono
            /\ mapa'[indiceDefensor'].nome = mapa[indiceDefensor'].nome]_vars

\* The second round ended in a conquest: the defending territory has the
\* colour and owner of the attacking one and still its own name.
C18_Witness ==
    /\ pc = "estatisticas"
    /\ turno = 2
    /\ mensagem = "Conquistou"
    /\ mapa[indiceDefensor].cor = mapa[indiceAtacante].cor
    /\ mapa[indiceDefensor].dono = mapa[indiceAtacante].dono
    /\ mapa[indiceDefensor].nome = NomesTerritorio[indiceDefensor + 1]
    /\ mapa[indiceAtacante].nome = NomesTerritorio[indiceAtacante + 1]

\* The players whose colour is that of territory i.
JogadoresDaCor(i) == {j \in DOMAIN jogadores : jogadores[j].cor = mapa[i].cor}

\* C19: for every number of players from 2 to 6, cadastrarJogadores gives
\* different colours to different players, no later step changes that, and
\* from distribuirTerritorios on the colour of every territory is the
\* colour of exactly one player.
C19_CoresDistintas ==
    /\ [](numJogadores \in MIN_JOGADORES..MAX_JOGADORES)
    /\ [](pc # "cadastrarJogadores" =>
            \A j, k \in DOMAIN jogadores :
                j # k => jogadores[j].cor # jogadores[k].cor)
    /\ [](pc \notin {"cadastrarJogadores", "nomesTerritorios",
                     "distribuirTerritorios"} =>
            \A i \in DOMAIN mapa : Cardinality(JogadoresDaCor(i)) = 1)
    /\ [][(pc # "cadastrarJogadores") =>
            (\A j \in DOMAIN jogadores : jogadores'[j].cor = jogadores[j].cor)]_vars

\* Six players, the most there can be, ended their first turn after a
\* conquest.
C19_Witness ==
    /\ pc = "fim"
    /\ numJogadores = MAX_JOGADORES
    /\ mensagem = "Conquistou"
    /\ Cardinality({jogadores[j].cor : j \in DOMAIN jogadores}) = MAX_JOGADORES

\* C20: once distribuirTerritorios has run, every territory holds 1 to 6
\* troops in every state; a conquest always moves at least 1 troop by the
\* halving alone and a repelled attacker always has more than 1 troop, so
\* neither the correction of a zero half to 1 nor the guard on the troop
\* lost by a repelled attacker ever decides an outcome.
C20_TropasDe1a6 ==
    /\ [](pc \notin {"cadastrarJogadores", "nomesTerritorios",
                     "distribuirTerritorios"} =>
            \A i \in DOMAIN mapa : mapa[i].tropas \in 1..6)
    /\ [][(RodadaRetorna /\ mensagem' = "Conquistou") =>
            /\ mapa[indiceAtacante'].tropas \div 2 >= 1
            /\ mapa'[indiceDefensor'].tropas = mapa[indiceAtacante'].tropas \div 2
            /\ mapa'[indiceAtacante'].tropas =
                   mapa[indiceAtacante'].tropas - (mapa[indiceAtacante'].tropas \div 2)
            /\ mapa'[indiceAtacante'].tropas >= 1]_vars
    /\ [][(RodadaRetorna /\ mensagem' = "Repelido") =>
            /\ mapa[indiceAtacante'].tropas > 1
            /\ mapa'[indiceAtacante'].tropas = mapa[indiceAtacante'].tropas - 1]_vars

\* A territory with 2 troops has conquered another: 1 troop moved and 1
\* stayed, next to a territory that still holds 6.
C20_Witness ==
    /\ pc = "estatisticas"
    /\ mensagem = "Conquistou"
    /\ mapa[indiceAtacante].tropas = 1
    /\ mapa[indiceDefensor].tropas = 1
    /\ \E i \in DOMAIN mapa : mapa[i].tropas = 6

\* The sum of the troops of the territories I of the map m.
RECURSIVE SomaTropasEm(_, _)
SomaTropasEm(m, I) ==
    IF I = {} THEN 0
    ELSE LET i == CHOOSE x \in I : TRUE
         IN  m[i].tropas + SomaTropasEm(m, I \ {i})

\* On the map m: the troops of a colour, and the number of its territories
\* with more than 5 troops.
RECURSIVE TropasDaCorAte(_, _, _)
TropasDaCorAte(m, cor, n) ==
    IF n = 0 THEN 0
    ELSE TropasDaCorAte(m, cor, n - 1)
             + (IF m[n - 1].cor = cor THEN m[n - 1].tropas ELSE 0)
TropasDaCor(m, cor) == TropasDaCorAte(m, cor, Cardinality(DOMAIN m))
FortesDaCor(m, cor) == Cardinality({i \in DOMAIN m : m[i].cor = cor /\ m[i].tropas > 5})

\* C21: from the end of the setup on, no step that changes the map raises
\* the troops a player holds over the territories of its colour, nor the
\* number of its territories with more than 5 troops; so GENERAL SUPREMO or
\* ESTRATEGISTA is true for a player after a step only if it was true
\* before it: once false, it is false after every later step.
C21_TropasNaoAumentam ==
    [][(/\ pc \notin {"cadastrarJogadores", "nomesTerritorios",
                       "distribuirTerritorios"}
        /\ mapa' # mapa) =>
          \A j \in DOMAIN jogadores :
              /\ TropasDaCor(mapa', jogadores[j].cor) <= TropasDaCor(mapa, jogadores[j].cor)
              /\ FortesDaCor(mapa', jogadores[j].cor) <= FortesDaCor(mapa, jogadores[j].cor)
              /\ \A missao \in {"GENERAL SUPREMO", "ESTRATEGISTA"} :
                    verificarMissao(missao, mapa', numTerritorios, jogadores[j].cor)
                        => verificarMissao(missao, mapa, numTerritorios,
                                           jogadores[j].cor)]_vars

\* A player whose mission is ESTRATEGISTA owns 4 territories after two
\* conquests and still fewer than 3 territories with more than 5 troops.
C21_Witness ==
    /\ pc = "verificarVencedor"
    /\ turno = 2
    /\ mensagem = "Conquistou"
    /\ \E j \in DOMAIN jogadores :
          /\ jogadores[j].missao = "ESTRATEGISTA"
          /\ jogadores[j].territoriosControlados >= 4
          /\ FortesDaCor(mapa, jogadores[j].cor) < 3

\* The troops on the whole map m.
TropasNoMapa(m) == SomaTropasEm(m, DOMAIN m)

\* C22: a conquest lowers the troops on the whole map by the troops the
\* defender had and a repelled attack lowers them by 1, a draw or a refused
\* selection leaves the map as it is, and no other step touches the map;
\* the troops on the map never fall below the number of territories, and
\* once they equal it every selection is refused. Each attack that changes
\* the map thus costs at least 1 troop of the (troops after setup - number
\* of territories) that can be lost.
C22_TropasDoMapaDiminuem ==
    /\ [](TropasNoMapa(mapa) >= numTerritorios)
    /\ [][RodadaRetorna =>
            /\ mensagem' = "Conquistou" =>
                  /\ TropasNoMapa(mapa') =
                         TropasNoMapa(mapa) - mapa[indiceDefensor'].tropas
                  /\ TropasNoMapa(mapa') < TropasNoMapa(mapa)
            /\ mensagem' = "Repelido" =>
                  TropasNoMapa(mapa') = TropasNoMapa(mapa) - 1
            /\ mensagem' \in {"Empate"} \cup RejeicoesDaRodada => mapa' = mapa
            /\ mensagem' \in Resultados \cup RejeicoesDaRodada
            /\ TropasNoMapa(mapa) = numTerritorios =>
                  mensagem' \in RejeicoesDaRodada]_vars
    /\ [][~RodadaRetorna => mapa' = mapa]_vars

\* Five attacks have changed the map without eliminating a player, every
\* territory is down to 1 troop, and the selection of the sixth round has
\* been refused for lack of troops.
C22_Witness ==
    /\ pc = "estatisticas"
    /\ turno = MaxTurnoDesgaste
    /\ TropasNoMapa(mapa) = numTerritorios
    /\ \A j \in DOMAIN jogadores : jogadores[j].ativo
    /\ mensagem = "TropasInsuficientes"

\* The sum of territoriosControlados over the players J.
RECURSIVE SomaControlados(_)
SomaControlados(J) ==
    IF J = {} THEN 0
    ELSE LET j == CHOOSE x \in J : TRUE
         IN  jogadores[j].territoriosControlados + SomaControlados(J \ {j})

\* C23: whenever the counters of atualizarEstatisticasJogadores are current,
\* the territoriosControlados of all players add up to numTerritorios and a
\* player is active exactly when its territoriosControlados is above 0; so
\* from the registration of the players on, at least one player is active
\* in every state.
C23_ContadoresEAtivos ==
    /\ EstatisticasAtuais =>
          /\ SomaControlados(DOMAIN jogadores) = numTerritorios
          /\ \A j \in DOMAIN jogadores :
                jogadores[j].ativo = (jogadores[j].territoriosControlados > 0)
    /\ pc # "cadastrarJogadores" => jogadoresAtivos(jogadores) >= 1

\* The first round of three players eliminated one of them: two counters
\* above 0 add up to the 5 territories and the user is asked to continue.
C23_Witness ==
    /\ pc = "continuar"
    /\ turno = 1
    /\ numJogadores = 3
    /\ jogadoresAtivos(jogadores) = 2
    /\ \E j \in DOMAIN jogadores :
          ~jogadores[j].ativo /\ jogadores[j].territoriosControlados = 0

\* C24: from distribuirTerritorios on, in every state the colour of each
\* territory is the colour of exactly one player and the owner name of the
\* territory is the name of that player.
C24_DonoSegueCor ==
    pc \notin {"cadastrarJogadores", "nomesTerritorios", "distribuirTerritorios"} =>
        \A i \in DOMAIN mapa :
            /\ Cardinality(JogadoresDaCor(i)) = 1
            /\ \A j \in JogadoresDaCor(i) : mapa[i].dono = jogadores[j].nome

\* The session of two players ended with every territory under the name
\* and colour of one of them.
C24_Witness ==
    /\ pc = "fim"
    /\ numJogadores = 2
    /\ \E j \in DOMAIN jogadores :
          \A i \in DOMAIN mapa : /\ mapa[i].dono = jogadores[j].nome
                                 /\ mapa[i].cor = jogadores[j].cor

\* The active players of the roster js that own no territory on the map m:
\* those the next atualizarEstatisticasJogadores eliminates.
SemTerritorio(js, m) ==
    {j \in DOMAIN js : js[j].ativo /\ \A i \in DOMAIN m : m[i].cor # js[j].cor}

\* C25: a round leaves at most one active player without territory, and
\* only after a conquest: the player whose colour the defending territory
\* had before the attack, never the player of the attacking territory; a
\* repelled attack, a draw and a refused selection leave none. The
\* statistics of the round eliminate exactly the players so left.
C25_UmEliminadoPorRodada ==
    /\ [](pc = "batalha" => SemTerritorio(jogadores, mapa) = {})
    /\ [][RodadaRetorna =>
            /\ Cardinality(SemTerritorio(jogadores', mapa')) <= 1
            /\ \A j \in SemTerritorio(jogadores', mapa') :
                  /\ mensagem' = "Conquistou"
                  /\ jogadores[j].cor = mapa[indiceDefensor'].cor
                  /\ jogadores[j].cor # mapa[indiceAtacante'].cor
                  /\ jogadores[j].cor # mapa'[indiceAtacante'].cor
            /\ mensagem' # "Conquistou" => SemTerritorio(jogadores', mapa') = {}]_vars
    /\ [][(pc = "estatisticas") =>
            /\ {j \in DOMAIN jogadores : jogadores[j].ativo /\ ~jogadores'[j].ativo}
                   = SemTerritorio(jogadores, mapa)
            /\ mapa[indiceAtacante].cor \in
                   {jogadores'[j].cor : j \in {k \in DOMAIN jogadores : jogadores'[k].ativo}}]_vars

\* The statistics of the first round of three players have just
\* eliminated the third player, whose only territory was conquered, and
\* nobody else.
C25_Witness ==
    /\ pc = "verificarVencedor"
    /\ turno = 1
    /\ numJogadores = 3
    /\ mensagem = "Conquistou"
    /\ ~jogadores[2].ativo
    /\ jogadores[0].ativo
    /\ jogadores[1].ativo

\* atualizarEstatisticasJogadores applied to the roster js on the map as it
\* stands.
Atualizados(js) == atualizarEstatisticasJogadores(js, numJogadores, mapa, numTerritorios)

\* C26: wherever main calls atualizarEstatisticasJogadores, applying it to
\* its own result on the same map gives that result again,
\* territoriosControlados and ativo of every player included; as long as
\* the map is the one of the last call, another call would change no
\* player; and the call changes no territory.
C26_Idempotente ==
    /\ [](pc \in {"estatisticasIniciais", "estatisticas"} =>
            LET umaVez == Atualizados(jogadores)
            IN  Atualizados(umaVez) = umaVez)
    /\ [](EstatisticasAtuais => Atualizados(jogadores) = jogadores)
    /\ [][(pc \in {"estatisticasIniciais", "estatisticas"}) =>
            /\ mapa' = mapa
            /\ jogadores' = Atualizados(jogadores)]_vars

\* The statistics are about to be recomputed after a conquest that took
\* the last territory of an active player: the call will change a counter
\* and an ativo flag.
C26_Witness ==
    /\ pc = "estatisticas"
    /\ SemTerritorio(jogadores, mapa) # {}
    /\ Atualizados(jogadores) # jogadores
    /\ \E j \in DOMAIN jogadores :
          jogadores[j].ativo /\ ~Atualizados(jogadores)[j].ativo

\* C27 as claimed: whichever way the loop of main is left (a winner, at most
\* one active player, or the user's answer), the final report's turno - 1
\* is the number of rounds executed, which is the number turno of the round
\* in which the loop is left.
C27_TurnosDoRelatorio ==
    [][(pc \in {"verificarVencedor", "contarAtivos", "continuar"} /\ pc' = "fim") =>
          turno' - 1 = turno]_vars

====
